---- MODULE Spec2Model ----
(***************************************************************************)
(* labb4.py: a CSV file of measurements (batch,x,y,value) is loaded and    *)
(* grouped by batch, each batch is averaged over its points inside the     *)
(* unit circle, a table is printed and a scatter plot is saved.            *)
(*                                                                         *)
(* Representation.                                                         *)
(*  - A Python str is a sequence of one-character strings.  The alphabet   *)
(*    of the inputs is: digits, ".", "-", "+", ",", blank, tab, newline    *)
(*    and letters.  No input holds "e", "_", "inf" or "nan" spellings, so  *)
(*    float() and int() are the plain decimal grammars below.              *)
(*  - A Python float is an exact rational [n, d] in lowest terms, d > 0.   *)
(*    Every number of the inputs is a small multiple of 1/2, for which     *)
(*    float parsing, squaring, adding and comparing are exact; a quotient  *)
(*    sum/len stands for the correctly rounded double of that rational.    *)
(*  - A Python dict is the sequence of its items in insertion order.       *)
(***************************************************************************)
EXTENDS Integers, Sequences, FiniteSets, TLC

VARIABLES
    pc,               \* position of the run: "prompt", "open", "read" (load_data's
                      \* loop), "averages" (main's loop), "plot_data", "done"
    filename,         \* main: filename (after .strip())
    file_exists,      \* whether open(filename) finds the file
    file,             \* the lines of the opened file, in order
    line_number,      \* load_data: number of lines consumed by the for loop
    batch_data,       \* dict batch -> list of (x, y, val), as a sequence of items
    batch_averages,   \* main: dict batch -> average, as a sequence of items
    filtered_samples, \* main: local of the last loop iteration
    measurements,     \* main: local of the last loop iteration
    stdout,           \* lines written to standard output
    stderr,           \* lines written to standard error
    plots,            \* names of the files written by plt.savefig
    exception,        \* "none", or the exception that ended the run
    exit_status       \* process exit status once pc = "done"

vars == <<pc, filename, file_exists, file, line_number, batch_data, batch_averages,
          filtered_samples, measurements, stdout, stderr, plots, exception, exit_status>>

\* ---------------------------------------------------------------- bounds

MaxLines == 3

\* ------------------------------------------------------------ str methods

Whitespace == {" ", "\t", "\n"}
Digits == {"0", "1", "2", "3", "4", "5", "6", "7", "8", "9"}

DigitVal(c) ==
    CASE c = "0" -> 0 [] c = "1" -> 1 [] c = "2" -> 2 [] c = "3" -> 3 [] c = "4" -> 4
      [] c = "5" -> 5 [] c = "6" -> 6 [] c = "7" -> 7 [] c = "8" -> 8 [] c = "9" -> 9

\* s[i:] with a 1-based start
Drop(s, k) == SubSeq(s, k + 1, Len(s))

RECURSIVE lstrip(_)
lstrip(s) ==
    IF s # <<>> /\ Head(s) \in Whitespace THEN lstrip(Tail(s)) ELSE s

RECURSIVE rstrip(_)
rstrip(s) ==
    IF s # <<>> /\ s[Len(s)] \in Whitespace THEN rstrip(SubSeq(s, 1, Len(s) - 1)) ELSE s

\* str.strip()
strip(s) == rstrip(lstrip(s))

StartsWith(s, p) == Len(s) >= Len(p) /\ SubSeq(s, 1, Len(p)) = p

\* str.split(sep) for a one-character sep: always at least one part
RECURSIVE split_from(_, _, _)
split_from(s, sep, cur) ==
    IF s = <<>> THEN <<cur>>
    ELSE IF Head(s) = sep THEN <<cur>> \o split_from(Tail(s), sep, <<>>)
    ELSE split_from(Tail(s), sep, Append(cur, Head(s)))

split(s, sep) == split_from(s, sep, <<>>)

\* str.replace(old, new): every non-overlapping occurrence, leftmost first
RECURSIVE replace(_, _, _)
replace(s, old, new) ==
    IF s = <<>> THEN <<>>
    ELSE IF StartsWith(s, old) THEN new \o replace(Drop(s, Len(old)), old, new)
    ELSE <<Head(s)>> \o replace(Tail(s), old, new)

\* ------------------------------------------------------------ numbers

RECURSIVE GCD(_, _)
GCD(a, b) == IF b = 0 THEN a ELSE GCD(b, a % b)

Abs(a) == IF a < 0 THEN -a ELSE a

\* the rational n/d (d > 0) in lowest terms
Rat(n, d) ==
    LET g == GCD(Abs(n), d) IN [n |-> n \div g, d |-> d \div g]

RatAdd(a, b) == Rat(a.n * b.d + b.n * a.d, a.d * b.d)
RatMul(a, b) == Rat(a.n * b.n, a.d * b.d)
RatLe(a, b) == a.n * b.d <= b.n * a.d
Zero == Rat(0, 1)
One == Rat(1, 1)

RECURSIVE Pow10(_)
Pow10(k) == IF k = 0 THEN 1 ELSE 10 * Pow10(k - 1)

RECURSIVE DigitsVal(_)
DigitsVal(s) ==
    IF s = <<>> THEN 0 ELSE 10 * DigitsVal(SubSeq(s, 1, Len(s) - 1)) + DigitVal(s[Len(s)])

AllDigits(s) == \A i \in 1..Len(s) : s[i] \in Digits

HasSign(s) == s # <<>> /\ Head(s) \in {"-", "+"}
Unsigned(s) == IF HasSign(s) THEN Tail(s) ELSE s
SignOf(s) == IF s # <<>> /\ Head(s) = "-" THEN -1 ELSE 1

\* int(s) succeeds: optional sign, then one or more digits
IsInt(s) ==
    LET t == Unsigned(strip(s)) IN t # <<>> /\ AllDigits(t)

\* int(s)
int(s) ==
    LET t == strip(s) IN SignOf(t) * DigitsVal(Unsigned(t))

\* the digits of a decimal literal with its point removed, and the number of
\* digits after the point
DotsAt(t) == {i \in 1..Len(t) : t[i] = "."}
Mantissa(t) == SelectSeq(t, LAMBDA c : c # ".")
FracLen(t) == IF DotsAt(t) = {} THEN 0 ELSE Len(t) - (CHOOSE i \in DotsAt(t) : TRUE)

\* float(s) succeeds: optional sign, digits with at most one point, at least one digit
IsFloat(s) ==
    LET t == Unsigned(strip(s)) IN
        /\ Cardinality(DotsAt(t)) <= 1
        /\ Mantissa(t) # <<>>
        /\ AllDigits(Mantissa(t))

\* float(s)
float(s) ==
    LET t == Unsigned(strip(s)) IN
        Rat(SignOf(strip(s)) * DigitsVal(Mantissa(t)), Pow10(FracLen(t)))

\* ------------------------------------------------------------ dict

\* the keys of a dict, in insertion order
Keys(d) == [i \in 1..Len(d) |-> d[i].key]
KeySet(d) == {d[i].key : i \in 1..Len(d)}
HasKey(d, k) == k \in KeySet(d)
IndexOf(d, k) == CHOOSE i \in 1..Len(d) : d[i].key = k
\* d[k]
Get(d, k) == d[IndexOf(d, k)].value
\* d[k] = v: a new key goes last, an old key keeps its place
Put(d, k, v) ==
    IF HasKey(d, k) THEN [d EXCEPT ![IndexOf(d, k)].value = v]
    ELSE Append(d, [key |-> k, value |-> v])

\* ------------------------------------------------------------ load_data

Comma == ","

\* lines 29-34 for one non-empty stripped line: the parsed fields, or the
\* ValueError raised (the first that applies, in the order of the code)
parse_line(line) ==
    LET raw == split(line, Comma)
        parts == [i \in 1..Len(raw) |-> strip(raw[i])]
    IN
        IF Len(parts) # 4
        THEN [ok |-> FALSE, reason |-> [kind |-> "Expected 4 values, got", got |-> Len(parts)]]
        ELSE IF \E i \in 2..4 : ~IsFloat(parts[i])
        THEN [ok |-> FALSE,
              reason |-> [kind |-> "could not convert string to float",
                          text |-> parts[CHOOSE i \in 2..4 :
                                           /\ ~IsFloat(parts[i])
                                           /\ \A j \in 2..(i - 1) : IsFloat(parts[j])]]]
        ELSE [ok |-> TRUE, batch |-> parts[1],
              sample |-> <<float(parts[2]), float(parts[3]), float(parts[4])>>]

\* add_sample with the list started anew for every line
add_sample_overwrite(data, batch, sample) == Put(data, batch, <<sample>>)

\* lines 36-38
add_sample(data, batch, sample) ==
    LET d == IF HasKey(data, batch) THEN data ELSE Put(data, batch, <<>>) IN
        Put(d, batch, Append(Get(d, batch), sample))

\* load_line with the batch key created before the numbers are converted
load_line_key_first(data, err, n, raw) ==
    LET line == strip(raw)
        parts == split(line, Comma)
    IN  IF line = <<>> THEN [data |-> data, err |-> err]
        ELSE IF parse_line(line).ok
        THEN [data |-> add_sample(data, parse_line(line).batch, parse_line(line).sample),
              err |-> err]
        ELSE [data |-> IF Len(parts) = 4 /\ ~HasKey(data, strip(parts[1]))
                       THEN Put(data, strip(parts[1]), <<>>) ELSE data,
              err |-> Append(err, [kind |-> "Warning: invalid data in line",
                                   line_number |-> n, line |-> line,
                                   reason |-> parse_line(line).reason])]

\* the body of the for loop, lines 24-41, for line number n with text raw:
\* the dict and the error stream after it
load_line(data, err, n, raw) ==
    LET line == strip(raw)
        parsed == parse_line(line)
    IN  IF line = <<>> THEN [data |-> data, err |-> err]
        ELSE IF parsed.ok
        THEN [data |-> add_sample(data, parsed.batch, parsed.sample), err |-> err]
        ELSE [data |-> data,
              err |-> Append(err, [kind |-> "Warning: invalid data in line",
                                   line_number |-> n, line |-> line,
                                   reason |-> parsed.reason])]

\* ------------------------------------------------------------ processing

\* the test with the boundary left out
in_unit_circle_strict(s) ==
    LET q == RatAdd(RatMul(s[1], s[1]), RatMul(s[2], s[2])) IN RatLe(q, One) /\ q # One

\* x**2 + y**2 <= 1
in_unit_circle(s) == RatLe(RatAdd(RatMul(s[1], s[1]), RatMul(s[2], s[2])), One)

\* no filtering at all
filter_keeps_all(samples) == samples

filter_within_unit_circle(samples) == SelectSeq(samples, in_unit_circle)

RECURSIVE sum(_)
sum(xs) == IF xs = <<>> THEN Zero ELSE RatAdd(Head(xs), sum(Tail(xs)))

\* the outcome of a call: the exception it raises, or "none" and its value
Returns(v) == [raised |-> "none", value |-> v]
Raises(exc) == [raised |-> exc, value |-> Zero]

\* a / n for a float a and an int n; dividing by zero raises
TrueDiv(a, n) == IF n = 0 THEN Raises("ZeroDivisionError") ELSE Returns(Rat(a.n, a.d * n))

\* the average without the guard for an empty list
calculate_average_unguarded(ms) == TrueDiv(sum(ms), Len(ms))

\* lines 73-75
calculate_average(ms) ==
    IF ms = <<>> THEN Returns(Zero) ELSE TrueDiv(sum(ms), Len(ms))

\* [val for (_, _, val) in filtered_samples]
values_of(samples) == [i \in 1..Len(samples) |-> samples[i][3]]

\* ------------------------------------------------------------ print_results

\* sorted(items, key=...): a stable insertion sort on the integer key
RECURSIVE insert_by_key(_, _)
insert_by_key(sorted_items, item) ==
    IF sorted_items = <<>> THEN <<item>>
    ELSE IF int(sorted_items[Len(sorted_items)].key) <= int(item.key)
    THEN Append(sorted_items, item)
    ELSE Append(insert_by_key(SubSeq(sorted_items, 1, Len(sorted_items) - 1), item),
                sorted_items[Len(sorted_items)])

\* the items left in dict order
sorted_not(items) == items

RECURSIVE sorted(_)
sorted(items) ==
    IF items = <<>> THEN <<>>
    ELSE insert_by_key(sorted(SubSeq(items, 1, Len(items) - 1)), items[Len(items)])

Header == [kind |-> "header", cols |-> <<"Batch", "Average">>]
Row(item) == [kind |-> "row", cols |-> <<item.key, item.value>>]

\* print_results with the batches of average 0.0 left out
print_results_skips_zero(averages) ==
    LET kept == SelectSeq(averages, LAMBDA it : it.value # Zero) IN
        IF \E i \in 1..Len(averages) : ~IsInt(averages[i].key)
        THEN [lines |-> <<Header>>, raised |-> "ValueError"]
        ELSE [lines |-> <<Header>> \o [i \in 1..Len(kept) |-> Row(sorted(kept)[i])],
              raised |-> "none"]

\* lines 86-88: the lines printed, and the exception raised if any.  sorted()
\* evaluates the key of every item before it orders them, so a key that int()
\* rejects raises after the header and before any row.
print_results(averages) ==
    IF \E i \in 1..Len(averages) : ~IsInt(averages[i].key)
    THEN [lines |-> <<Header>>, raised |-> "ValueError"]
    ELSE LET ordered == sorted(averages) IN
           [lines |-> <<Header>> \o [i \in 1..Len(ordered) |-> Row(ordered[i])],
            raised |-> "none"]

\* ------------------------------------------------------------ plot_data

DotCsv == <<".", "c", "s", "v">>
DotPdf == <<".", "p", "d", "f">>

\* line 144: filename.replace('.csv', '')
output_filename(name) == replace(name, DotCsv, <<>>)

\* line 125: f"{output_filename}.pdf"
plot_file(base) == base \o DotPdf

Confirmation(base) ==
    [kind |-> "A plot of the data can be found in", cols |-> <<plot_file(base)>>]

\* ------------------------------------------------------------ inputs

NL(s) == Append(s, "\n")

\* what is typed at the prompt
Names ==
    { <<" ", "a", ".", "c", "s", "v", " ">>,
      <<"a", ".", "c", "s", "v", ".", "c", "s", "v">>,
      <<"a">> }

\* the lines a file is made of, each with its line end: batch "1" has a point
\* inside, one on the circle and one outside; "10", "01" and "a" are further
\* batch ids; three lines are malformed (3 fields, a non-numeric x, 5 fields)
\* and one is blank
Lines ==
    { NL(<<"1", ",", "0", ",", "0", ",", "1", "0">>),
      NL(<<" ", "1", " ", ",", " ", "1", " ", ",", "0", ",", " ", "2", "0">>),
      NL(<<"1", ",", "2", ",", "2", ",", "9", "9">>),
      NL(<<"2", ",", "0", ".", "5", ",", "0", ".", "5", ",", "3", "0">>),
      NL(<<"1", "0", ",", "0", ",", "-", "1", ",", "5">>),
      NL(<<"0", "1", ",", "0", ",", "0", ",", "2", "0">>),
      NL(<<"a", ",", "0", ",", "0", ",", "1", "0">>),
      NL(<<"1", ",", "0", ",", "0">>),
      NL(<<"2", ",", "x", ",", "0", ",", "1", "0">>),
      NL(<<"2", ",", "0", ",", "0", ",", "1", "0", ",", "7">>),
      NL(<<" ", "\t">>) }

Files == UNION {[1..n -> Lines] : n \in 0..MaxLines}

\* ------------------------------------------------------------ the run

Init ==
    /\ pc = "prompt"
    /\ filename = <<>>
    /\ file_exists = FALSE
    /\ file = <<>>
    /\ line_number = 0
    /\ batch_data = <<>>
    /\ batch_averages = <<>>
    /\ filtered_samples = <<>>
    /\ measurements = <<>>
    /\ stdout = <<>>
    /\ stderr = <<>>
    /\ plots = {}
    /\ exception = "none"
    /\ exit_status = 0

\* an exception nobody catches: the traceback is written and the process ends
Uncaught(exc) ==
    /\ stderr' = Append(stderr, [kind |-> "Traceback", cols |-> <<exc>>])
    /\ exception' = exc
    /\ exit_status' = 1
    /\ pc' = "done"

\* line 133: filename = input('Which CSV file should be analyzed? ').strip()
Prompt ==
    /\ pc = "prompt"
    /\ \E typed \in Names : filename' = strip(typed)
    /\ stdout' = Append(stdout, [kind |-> "Which CSV file should be analyzed? ", cols |-> <<>>])
    /\ pc' = "open"
    /\ UNCHANGED <<file_exists, file, line_number, batch_data, batch_averages,
                   filtered_samples, measurements, stderr, plots, exception, exit_status>>

\* lines 20-22: the file is there and is opened
OpenFile ==
    /\ pc = "open"
    /\ \E content \in Files : file' = content
    /\ file_exists' = TRUE
    /\ batch_data' = <<>>
    /\ line_number' = 0
    /\ pc' = "read"
    /\ UNCHANGED <<filename, batch_averages, filtered_samples, measurements,
                   stdout, stderr, plots, exception, exit_status>>

\* OpenMissing with the message printed and the exit forgotten: load_data
\* returns the empty dict
OpenMissing_no_exit ==
    /\ pc = "open"
    /\ file_exists' = FALSE
    /\ stderr' = Append(stderr, [kind |-> "Error: File not found.", cols |-> <<filename>>])
    /\ file' = <<>>
    /\ line_number' = 0
    /\ batch_data' = <<>>
    /\ pc' = "read"
    /\ UNCHANGED <<filename, batch_averages, filtered_samples, measurements, stdout,
                   plots, exception, exit_status>>

\* lines 43-45: open() raises FileNotFoundError; the message, then sys.exit(1)
OpenMissing ==
    /\ pc = "open"
    /\ file_exists' = FALSE
    /\ stderr' = Append(stderr, [kind |-> "Error: File not found.", cols |-> <<filename>>])
    /\ exception' = "SystemExit"
    /\ exit_status' = 1
    /\ pc' = "done"
    /\ UNCHANGED <<filename, file, line_number, batch_data, batch_averages,
                   filtered_samples, measurements, stdout, plots>>

\* lines 23-41: one iteration of the for loop
ReadLine ==
    /\ pc = "read"
    /\ line_number < Len(file)
    /\ line_number' = line_number + 1
    /\ LET after == load_line(batch_data, stderr, line_number + 1, file[line_number + 1])
       IN  batch_data' = after.data /\ stderr' = after.err
    /\ UNCHANGED <<pc, filename, file_exists, file, batch_averages, filtered_samples,
                   measurements, stdout, plots, exception, exit_status>>

\* lines 47, 134, 137: the loop is over, load_data returns, main starts averaging
LoadReturn ==
    /\ pc = "read"
    /\ line_number = Len(file)
    /\ batch_averages' = <<>>
    /\ pc' = "averages"
    /\ UNCHANGED <<filename, file_exists, file, line_number, batch_data, filtered_samples,
                   measurements, stdout, stderr, plots, exception, exit_status>>

\* lines 138-141: one iteration of main's loop, for the next item of batch_data
AverageBatch ==
    /\ pc = "averages"
    /\ Len(batch_averages) < Len(batch_data)
    /\ LET item == batch_data[Len(batch_averages) + 1]
           fs == filter_within_unit_circle(item.value)
           ms == values_of(fs)
           avg == calculate_average(ms)
       IN  /\ filtered_samples' = fs
           /\ measurements' = ms
           /\ IF avg.raised # "none"
              THEN Uncaught(avg.raised) /\ UNCHANGED batch_averages
              ELSE /\ batch_averages' = Put(batch_averages, item.key, avg.value)
                   /\ UNCHANGED <<pc, stderr, exception, exit_status>>
    /\ UNCHANGED <<filename, file_exists, file, line_number, batch_data, stdout, plots>>

\* line 143: print_results(batch_averages)
PrintResults ==
    /\ pc = "averages"
    /\ Len(batch_averages) = Len(batch_data)
    /\ LET printed == print_results(batch_averages)
       IN  /\ stdout' = stdout \o printed.lines
           /\ IF printed.raised # "none"
              THEN Uncaught(printed.raised)
              ELSE pc' = "plot_data" /\ UNCHANGED <<stderr, exception, exit_status>>
    /\ UNCHANGED <<filename, file_exists, file, line_number, batch_data, batch_averages,
                   filtered_samples, measurements, plots>>

\* line 144 and lines 91-126: the figure is saved and the confirmation printed
PlotData ==
    /\ pc = "plot_data"
    /\ plots' = plots \cup {plot_file(output_filename(filename))}
    /\ stdout' = Append(stdout, Confirmation(output_filename(filename)))
    /\ exit_status' = 0
    /\ pc' = "done"
    /\ UNCHANGED <<filename, file_exists, file, line_number, batch_data, batch_averages,
                   filtered_samples, measurements, stderr, exception>>

Next ==
    \/ Prompt
    \/ OpenFile
    \/ OpenMissing
    \/ ReadLine
    \/ LoadReturn
    \/ AverageBatch
    \/ PrintResults
    \/ PlotData

Spec == Init /\ [][Next]_vars

\* ====================================================================
\* Properties.  The reference notions below are stated on the lines of the
\* file by index; none of them uses parse_line, load_line, add_sample,
\* filter_within_unit_circle, calculate_average, sorted or print_results.
\* ====================================================================

\* the j-th smallest element of a finite set of integers
Nth(S, j) == CHOOSE i \in S : Cardinality({m \in S : m <= i}) = j

\* what a line of text is, read off its fields: blank, malformed (a field
\* count other than 4, or an x, y or value that is not a number) or valid
RefFieldsOf(text) ==
    LET raw == split(strip(text), ",") IN [k \in 1..Len(raw) |-> strip(raw[k])]
RefKindOf(text) ==
    IF strip(text) = <<>> THEN "blank"
    ELSE IF Len(RefFieldsOf(text)) # 4 THEN "malformed"
    ELSE IF \E k \in 2..4 : ~IsFloat(RefFieldsOf(text)[k]) THEN "malformed"
    ELSE "valid"
\* the table of the lines a file can hold, computed once
RefLine ==
    [text \in Lines |->
        [kind |-> RefKindOf(text),
         batch |-> RefFieldsOf(text)[1],
         sample |-> IF RefKindOf(text) = "valid"
                    THEN <<float(RefFieldsOf(text)[2]), float(RefFieldsOf(text)[3]),
                           float(RefFieldsOf(text)[4])>>
                    ELSE <<>>]]

RefBlank(i) == RefLine[file[i]].kind = "blank"
RefMalformed(i) == RefLine[file[i]].kind = "malformed"
RefValid(i) == RefLine[file[i]].kind = "valid"
RefBatch(i) == RefLine[file[i]].batch
RefSample(i) == RefLine[file[i]].sample

\* x*x + y*y <= 1 on the fractions themselves
RefInside(p) ==
    p[1].n * p[1].n * p[2].d * p[2].d + p[2].n * p[2].n * p[1].d * p[1].d
        <= p[1].d * p[1].d * p[2].d * p[2].d

\* the valid lines among the first n, those of batch b, and those of b inside the circle
ValidUpTo(n) == {i \in 1..n : RefValid(i)}
LinesOf(b, n) == {i \in ValidUpTo(n) : RefBatch(i) = b}
InsideLinesOf(b) == {i \in LinesOf(b, Len(file)) : RefInside(RefSample(i))}
MalformedUpTo(n) == {i \in 1..n : RefMalformed(i)}

Loading == pc \in {"read", "averages", "plot_data"} \/ (pc = "done" /\ file_exists)
Loaded == pc \in {"averages", "plot_data"} \/ (pc = "done" /\ file_exists)

Warnings == SelectSeq(stderr, LAMBDA e : e.kind = "Warning: invalid data in line")
TableLines == SelectSeq(stdout, LAMBDA e : e.kind \in {"header", "row"})
Rows == SelectSeq(stdout, LAMBDA e : e.kind = "row")

\* C10: after load_data has processed any prefix of the file, the keys of the
\* mapping are exactly the trimmed batch fields of the valid lines, compared as
\* strings and each held once; the batches stand in first-seen order; each
\* batch holds exactly the records of its valid lines, in line order, so every
\* valid line's record is in exactly one batch, exactly once.
C10_GroupedInFileOrder ==
    Loading =>
        /\ KeySet(batch_data) = {RefBatch(i) : i \in ValidUpTo(line_number)}
        /\ \A k, l \in 1..Len(batch_data) :
              k < l =>
                /\ batch_data[k].key # batch_data[l].key
                /\ Nth(LinesOf(batch_data[k].key, line_number), 1)
                     < Nth(LinesOf(batch_data[l].key, line_number), 1)
        /\ \A k \in 1..Len(batch_data) :
              LET ix == LinesOf(batch_data[k].key, line_number) IN
                /\ Len(batch_data[k].value) = Cardinality(ix)
                /\ \A j \in 1..Cardinality(ix) :
                      batch_data[k].value[j] = RefSample(Nth(ix, j))

\* batches "01" and "1" are both present, "01" seen first, and "1" holds two records
C10_Witness ==
    /\ pc = "averages"
    /\ Len(batch_data) = 2
    /\ batch_data[1].key = <<"0", "1">>
    /\ batch_data[2].key = <<"1">>
    /\ Len(batch_data[2].value) = 2
    /\ batch_data[2].value[1] # batch_data[2].value[2]

\* C3: each malformed line among those processed has exactly one warning, in
\* line order and carrying its line number; blank lines have none; a malformed
\* line adds no record and no batch key; the load goes on to the end of the
\* file, so every valid line before and after it is loaded.
C3_MalformedLineSkipped ==
    /\ Loading =>
          /\ Len(Warnings) = Cardinality(MalformedUpTo(line_number))
          /\ \A j \in 1..Len(Warnings) :
                /\ Warnings[j].line_number = Nth(MalformedUpTo(line_number), j)
                /\ Warnings[j].line = strip(file[Warnings[j].line_number])
          /\ \A k \in 1..Len(batch_data) :
                /\ LinesOf(batch_data[k].key, line_number) # {}
                /\ Len(batch_data[k].value)
                     = Cardinality(LinesOf(batch_data[k].key, line_number))
          /\ \A i \in ValidUpTo(line_number) : HasKey(batch_data, RefBatch(i))
    /\ Loaded => line_number = Len(file)

\* a valid line, a malformed line, a valid line of another batch: one warning, both batches
C3_Witness ==
    /\ pc = "averages"
    /\ Len(file) = 3
    /\ RefValid(1) /\ RefMalformed(2) /\ RefValid(3)
    /\ RefBatch(1) # RefBatch(3)
    /\ Len(Warnings) = 1
    /\ KeySet(batch_data) = {RefBatch(1), RefBatch(3)}

\* the sum of the values of the lines of a set
RECURSIVE RefSum(_)
RefSum(S) ==
    IF S = {} THEN [n |-> 0, d |-> 1]
    ELSE LET i == CHOOSE m \in S : TRUE IN RatAdd(RefSample(i)[3], RefSum(S \ {i}))

\* sum / count as a fraction in lowest terms
RefMean(S) == Rat(RefSum(S).n, RefSum(S).d * Cardinality(S))

\* C1: for a batch with at least one record inside the circle, the average
\* main() holds for it and the average printed in its table row are the sum of
\* the values of that batch's records inside the circle over their number.
C1_AverageOfInsideRecords ==
    Loaded =>
        /\ \A k \in 1..Len(batch_averages) :
              InsideLinesOf(batch_averages[k].key) # {} =>
                  batch_averages[k].value = RefMean(InsideLinesOf(batch_averages[k].key))
        /\ \A r \in 1..Len(Rows) :
              InsideLinesOf(Rows[r].cols[1]) # {} =>
                  Rows[r].cols[2] = RefMean(InsideLinesOf(Rows[r].cols[1]))

\* batch "1" has the records 10 (inside), 20 (on the circle) and 99 (outside):
\* the row of batch "1" reports 15
C1_Witness ==
    /\ pc = "done"
    /\ Len(Rows) = 1
    /\ Rows[1].cols = << <<"1">>, [n |-> 15, d |-> 1] >>
    /\ Cardinality(LinesOf(<<"1">>, Len(file))) = 3
    /\ Cardinality(InsideLinesOf(<<"1">>)) = 2

\* the batch whose iteration of main's loop ran last
LastAveraged == batch_data[Len(batch_averages)]
InsidePositions(samples) == {i \in 1..Len(samples) : RefInside(samples[i])}

\* C5: after an iteration of main's loop, filtered_samples is the sub-sequence
\* of the batch's records with x*x + y*y <= 1 (boundary included), in the same
\* relative order and with duplicates kept, and the batch's own list is still
\* the list of records that was loaded.
C5_FilterIsInsideSubsequence ==
    (Loaded /\ Len(batch_averages) >= 1 /\ exception # "ZeroDivisionError") =>
        LET samples == LastAveraged.value
            ix == InsidePositions(samples)
            lines == LinesOf(LastAveraged.key, Len(file))
        IN  /\ Len(filtered_samples) = Cardinality(ix)
            /\ \A j \in 1..Cardinality(ix) : filtered_samples[j] = samples[Nth(ix, j)]
            /\ Len(samples) = Cardinality(lines)
            /\ \A j \in 1..Cardinality(lines) : samples[j] = RefSample(Nth(lines, j))

\* of (0,0,10), (2,2,99), (1,0,20) the filter keeps (0,0,10) and the boundary
\* point (1,0,20), in that order
C5_Witness ==
    /\ pc = "averages"
    /\ Len(batch_averages) = 1
    /\ Len(LastAveraged.value) = 3
    /\ ~RefInside(LastAveraged.value[2])
    /\ filtered_samples = << LastAveraged.value[1], LastAveraged.value[3] >>
    /\ filtered_samples[2][1] = [n |-> 1, d |-> 1]
    /\ filtered_samples[2][2] = [n |-> 0, d |-> 1]

\* the same record twice in a batch is kept twice
C5_WitnessDuplicates ==
    /\ pc = "averages"
    /\ Len(batch_averages) = 1
    /\ Len(filtered_samples) = 2
    /\ filtered_samples[1] = filtered_samples[2]

HeaderPrinted == \E i \in 1..Len(stdout) : stdout[i] = Header
AllIdsNumeric == \A k \in 1..Len(batch_data) : IsInt(batch_data[k].key)

\* C6: no run ends with a division by zero; a batch with no record inside the
\* circle gets the average 0.0, in main's mapping and in its table row; and the
\* run goes on: once every batch is averaged the table is started, and when the
\* table's ordering step succeeds the plot is written and the run ends normally.
C6_EmptyBatchAveragesZero ==
    /\ exception # "ZeroDivisionError"
    /\ Loaded =>
          /\ \A k \in 1..Len(batch_averages) :
                InsideLinesOf(batch_averages[k].key) = {} =>
                    batch_averages[k].value = [n |-> 0, d |-> 1]
          /\ \A r \in 1..Len(Rows) :
                InsideLinesOf(Rows[r].cols[1]) = {} => Rows[r].cols[2] = [n |-> 0, d |-> 1]
    /\ (pc = "done" /\ file_exists) =>
          /\ Len(batch_averages) = Len(batch_data)
          /\ HeaderPrinted
          /\ AllIdsNumeric =>
                /\ exception = "none"
                /\ exit_status = 0
                /\ plots # {}
                /\ Len(Rows) = Len(batch_data)

\* batch "1" has only its outside record: its row reports 0.0, another batch
\* is reported too, and the plot is written
C6_Witness ==
    /\ pc = "done"
    /\ exception = "none"
    /\ plots # {}
    /\ LinesOf(<<"1">>, Len(file)) # {}
    /\ InsideLinesOf(<<"1">>) = {}
    /\ \E r \in 1..Len(Rows) : Rows[r].cols = << <<"1">>, [n |-> 0, d |-> 1] >>
    /\ Len(Rows) = 2

\* every non-blank line has 4 fields, numeric x, y and value, and a numeric batch id
WellFormedFile ==
    \A i \in 1..Len(file) : ~RefBlank(i) => (RefValid(i) /\ IsInt(RefBatch(i)))

InputBatchIds == {RefBatch(i) : i \in {m \in 1..Len(file) : ~RefBlank(m)}}

\* C2: on a well-formed file the run reaches the table without an exception,
\* and the batch ids of the table's rows are exactly the distinct batch ids of
\* the input, each in one row, whether or not the batch has a point inside the
\* unit circle.
C2_TableCoversEveryBatch ==
    (file_exists /\ WellFormedFile /\ pc \in {"plot_data", "done"}) =>
        /\ exception = "none"
        /\ {Rows[r].cols[1] : r \in 1..Len(Rows)} = InputBatchIds
        /\ \A r1, r2 \in 1..Len(Rows) : Rows[r1].cols[1] = Rows[r2].cols[1] => r1 = r2

\* a well-formed file of two batches, one of them ("1") with no point inside
\* the circle: both have a row
C2_Witness ==
    /\ pc = "done"
    /\ file_exists /\ WellFormedFile
    /\ Cardinality(InputBatchIds) = 2
    /\ <<"1">> \in InputBatchIds
    /\ InsideLinesOf(<<"1">>) = {}
    /\ Len(Rows) = 2

\* C7: the table starts with the header row; when every batch id is a numeric
\* string the header is followed by one row per batch and nothing else, and of
\* two consecutive rows the earlier one's batch id has the smaller or equal
\* integer value.
C7_RowsInNumericOrder ==
    /\ TableLines # <<>> => TableLines[1] = Header
    /\ (file_exists /\ AllIdsNumeric /\ pc \in {"plot_data", "done"}) =>
          /\ Len(TableLines) = 1 + Len(batch_averages)
          /\ \A r \in 2..Len(TableLines) : TableLines[r].kind = "row"
          /\ \A k \in 1..Len(batch_averages) :
                \E r \in 1..Len(Rows) :
                    Rows[r].cols = <<batch_averages[k].key, batch_averages[k].value>>
          /\ \A r \in 1..(Len(Rows) - 1) : int(Rows[r].cols[1]) <= int(Rows[r + 1].cols[1])

\* batch "10" is loaded before batch "2": string order and first-seen order
\* both put "10" first, the table puts "2" first
C7_Witness ==
    /\ pc = "done"
    /\ Keys(batch_data) = << <<"1", "0">>, <<"2">> >>
    /\ Len(Rows) = 2
    /\ Rows[1].cols[1] = <<"2">>
    /\ Rows[2].cols[1] = <<"1", "0">>

\* C4: when the file is not found, the run has printed the one error message
\* naming the file to the error stream and has ended with a non-zero status,
\* no table line (header or row) was ever printed and no plot was written.
C4_MissingFileAborts ==
    /\ (pc \notin {"prompt", "open"} /\ ~file_exists) =>
          /\ pc = "done"
          /\ exception = "SystemExit"
          /\ exit_status # 0
          /\ stderr = <<[kind |-> "Error: File not found.", cols |-> <<filename>>]>>
          /\ TableLines = <<>>
          /\ plots = {}
    /\ exception = "SystemExit" => ~file_exists

\* the missing file "a.csv.csv": message, status 1, nothing but the prompt on stdout
C4_Witness ==
    /\ pc = "done"
    /\ ~file_exists
    /\ filename = <<"a", ".", "c", "s", "v", ".", "c", "s", "v">>
    /\ stderr[1].cols = <<filename>>
    /\ exit_status = 1
    /\ Len(stdout) = 1

\* C8 as claimed: a run whose loaded data holds a non-numeric batch id still
\* executes the plot stage and writes the plot file.
C8_PlotWrittenDespiteBadId ==
    (pc = "done" /\ file_exists /\ ~AllIdsNumeric) => plots # {}

EndsWith(s, p) == Len(s) >= Len(p) /\ SubSeq(s, Len(s) - Len(p) + 1, Len(s)) = p
\* the name with its .csv extension removed and nothing else changed
RefBaseName(name) ==
    IF EndsWith(name, DotCsv) THEN SubSeq(name, 1, Len(name) - Len(DotCsv)) ELSE name

\* C9 as claimed: for every file name, the plot file is <base name>.pdf, the
\* base name being the file name with its .csv extension removed and nothing
\* else changed, and the confirmation line names that file.
C9_PlotNamedAfterBaseName ==
    (pc = "done" /\ exception = "none") =>
        /\ plots = {RefBaseName(filename) \o DotPdf}
        /\ stdout[Len(stdout)].cols = <<RefBaseName(filename) \o DotPdf>>

====
